---------------------------- MODULE Spec2Model ----------------------------
(***************************************************************************)
(* A model of src/app.py: the Gradio front end of the Brahmaanu chat       *)
(* service.  The three backend helpers (check_backend,                     *)
(* fetch_sample_questions, call_api) are modelled as operators over Python *)
(* values and backend outcomes; the Gradio session (components, event      *)
(* handlers) is modelled as a state machine.                               *)
(*                                                                         *)
(* Two specifications:                                                     *)
(*   Spec    the browser session: build_ui, page load, prompt edits,       *)
(*           control changes, sample selection and its change handler,     *)
(*           submit.                                                       *)
(*   SpecFn  the three helpers applied as functions to inputs drawn from   *)
(*           bounded sets (including inputs the session never produces,    *)
(*           such as a missing transcript).                                *)
(***************************************************************************)
EXTENDS Integers, Sequences, FiniteSets, TLC

VARIABLES
    pc,               \* "start" before build_ui, "built" after, "page" once a browser session is loaded
    sample_questions, \* build_ui: the choices of sample_dd
    msg,              \* gr.Textbox "Prompt"
    chat,             \* gr.Chatbot value
    state,            \* gr.State value
    status_lbl,       \* gr.Markdown status label
    sample_dd,        \* gr.Dropdown "Sample questions" value
    mode_dd,          \* gr.Dropdown "Mode" value
    use_hist,         \* gr.Checkbox value
    pending,          \* change events of sample_dd dispatched and not yet handled
    picked,           \* history: the sample the user selected last (None once the prompt is typed over)
    wire,             \* history: the state sent by the last submit, and what the last two responses supplied
    call              \* history (SpecFn): the last helper application: function, inputs, outcome, payload, result

vars == <<pc, sample_questions, msg, chat, state, status_lbl, sample_dd,
          mode_dd, use_hist, pending, picked, wire, call>>

-----------------------------------------------------------------------------
(* Python / JSON values.  A value is a record [tag, v]; v is always a      *)
(* sequence: empty for None, one element for bool/int/str, the items for   *)
(* a list, the two texts for a chat turn, and (key, value) pairs for a     *)
(* dict.  A chat turn stands for the Python tuple (user, assistant) and    *)
(* for the two-element JSON array alike; its two texts are values too.     *)

None == [tag |-> "None", v |-> <<>>]
PyBool(b) == [tag |-> "bool", v |-> <<b>>]
PyInt(n) == [tag |-> "int", v |-> <<n>>]
PyStr(s) == [tag |-> "str", v |-> <<s>>]
PyList(items) == [tag |-> "list", v |-> items]
PyDict(pairs) == [tag |-> "dict", v |-> pairs]
Turn(u, a) == [tag |-> "turn", v |-> <<u, a>>]

\* Python truth value of x, as used by `x or default`.
Truthy(x) ==
    CASE x.tag = "None" -> FALSE
      [] x.tag = "bool" -> x.v[1]
      [] x.tag = "int" -> x.v[1] # 0
      [] x.tag = "str" -> x.v[1] # ""
      [] OTHER -> Len(x.v) > 0

\* x or d
PyOr(x, d) == IF Truthy(x) THEN x ELSE d

HasKey(d, k) == \E i \in 1..Len(d.v) : d.v[i][1] = k

\* d.get(k, default) for a dict d
DictGet(d, k, default) ==
    IF HasKey(d, k)
    THEN (CHOOSE p \in {d.v[i] : i \in 1..Len(d.v)} : p[1] = k)[2]
    ELSE default

\* list(x) raises TypeError for a value that is not iterable.
ListRaises(x) == x.tag \in {"None", "bool", "int"}

\* new_hist = list(x); new_hist.append(item)      (x a list)
ListAppend(x, item) == PyList(Append(x.v, item))

\* Whether text s contains text sub.
Contains(s, sub) ==
    \E i \in 1..(Len(s) - Len(sub) + 1) : SubSeq(s, i, i + Len(sub) - 1) = sub

-----------------------------------------------------------------------------
(* Backend outcomes.  A request either raises an exception of the requests *)
(* library or completes with a response (status code, body).  The body is  *)
(* JSON (isjson, with the parsed value in data) or not.                    *)

Raises(e) == [kind |-> "raises", exc |-> e, status |-> 0, isjson |-> FALSE, data |-> None]
Response(code, data) ==
    [kind |-> "response", exc |-> "", status |-> code, isjson |-> TRUE, data |-> data]
NonJsonResponse(code) ==
    [kind |-> "response", exc |-> "", status |-> code, isjson |-> FALSE, data |-> None]

\* The classes an exception is an instance of (requests.exceptions).
Bases(e) ==
    CASE e = "ConnectionError" -> {"ConnectionError", "RequestException", "Exception"}
      [] e = "SSLError" -> {"SSLError", "ConnectionError", "RequestException", "Exception"}
      [] e = "ConnectTimeout" ->
            {"ConnectTimeout", "ConnectionError", "Timeout", "RequestException", "Exception"}
      [] e = "ReadTimeout" -> {"ReadTimeout", "Timeout", "RequestException", "Exception"}
      [] e = "Timeout" -> {"Timeout", "RequestException", "Exception"}
      [] e = "HTTPError" -> {"HTTPError", "RequestException", "Exception"}
      [] e = "JSONDecodeError" -> {"JSONDecodeError", "RequestException", "ValueError", "Exception"}
      [] e = "ChunkedEncodingError" -> {"ChunkedEncodingError", "RequestException", "Exception"}
      [] OTHER -> {e, "Exception"}

IsInstance(e, cls) == cls \in Bases(e)

\* resp.raise_for_status() raises HTTPError for 4xx and 5xx.
RaiseForStatus(code) == code >= 400 /\ code < 600

\* resp.ok
Ok(code) == ~RaiseForStatus(code)

-----------------------------------------------------------------------------
(* check_backend                                                           *)

READY == "backend=READY"
DOWN == "backend=DOWN"

\* The health probe ignores the body's status field.
check_backend_NoBodyCheck(oc) ==
    IF oc.kind = "raises" \/ RaiseForStatus(oc.status) THEN DOWN ELSE READY

\* check_backend(), given the outcome oc of GET /health.
check_backend(oc) ==
    IF oc.kind = "raises" THEN DOWN                     \* requests.get raised
    ELSE IF RaiseForStatus(oc.status) THEN DOWN         \* r.raise_for_status()
    ELSE IF ~Ok(oc.status) THEN DOWN                    \* r.ok
    ELSE IF ~oc.isjson THEN DOWN                        \* r.json() raised
    ELSE IF oc.data.tag # "dict" THEN DOWN              \* .get: AttributeError
    ELSE IF DictGet(oc.data, "status", None) = PyStr("ok") THEN READY
    ELSE DOWN

-----------------------------------------------------------------------------
(* fetch_sample_questions                                                  *)

\* The static list copied from the original UI (the typographic apostrophe
\* of "director's" written as the ASCII one).
FallbackQuestions ==
    PyList(<< PyStr("Where is the observatory located?"),
              PyStr("Describe the governance settings for observing cycle length, cycle start date, cycle end date, and director's discretionary time per cycle?"),
              PyStr("Outline the key policies for observing modes, observing queue categories, and remote observation support?"),
              PyStr("Summarize the discovery details for Dhruva Exoplanet and Aditi Pulsar?"),
              PyStr("Give the deepimager exposure time range?"),
              PyStr("Summarize the key calibration settings for flat field frames per filter per night, flat field illumination source, viscam twilight flat window, and flat field exposure level?") >>)

\* The helper returns whatever JSON value the backend sent.
fetch_sample_questions_NoListCheck(oc) ==
    IF oc.kind = "raises" \/ RaiseForStatus(oc.status) \/ ~oc.isjson
    THEN FallbackQuestions
    ELSE oc.data

\* fetch_sample_questions(), given the outcome oc of GET /sample_questions.
fetch_sample_questions(oc) ==
    IF oc.kind = "raises" THEN FallbackQuestions        \* requests.get raised
    ELSE IF RaiseForStatus(oc.status) THEN FallbackQuestions
    ELSE IF ~oc.isjson THEN FallbackQuestions           \* resp.json() raised
    ELSE IF oc.data.tag = "list" THEN oc.data           \* isinstance(data, list)
    ELSE FallbackQuestions

-----------------------------------------------------------------------------
(* call_api                                                                *)

MODES == <<"SFT_RAG", "SFT", "BASE_RAG", "BASE">>

ConnMsg ==
    "Backend not reachable (connection refused). Please retry when the backend server is running..."
TimeoutMsg == "Backend took too long. Please try again later."
UnknownMsg == "Unknown client error."
HttpMsg(code) == "Backend returned HTTP Error : " \o ToString(code) \o "."

Return(m, h, s, st) == [kind |-> "return", val |-> <<m, h, s, st>>]
Raise(e) == [kind |-> "raise", val |-> <<e>>]

\* The payload forwards the held state without the `or {}` default.
Payload_RawState(user_msg, chat_history, mode, use_history, st) ==
    [user_msg |-> user_msg,
     chat_history |-> PyOr(chat_history, PyList(<<>>)),
     mode |-> mode,
     use_history |-> use_history,
     state |-> st]

\* The payload drops the earlier turns when history is not to be used.
Payload_TrimHistory(user_msg, chat_history, mode, use_history, st) ==
    [user_msg |-> user_msg,
     chat_history |-> IF use_history THEN PyOr(chat_history, PyList(<<>>)) ELSE PyList(<<>>),
     mode |-> mode,
     use_history |-> use_history,
     state |-> PyOr(st, PyDict(<<>>))]

\* payload = {...}
Payload(user_msg, chat_history, mode, use_history, st) ==
    [user_msg |-> user_msg,
     chat_history |-> PyOr(chat_history, PyList(<<>>)),
     mode |-> mode,
     use_history |-> use_history,
     state |-> PyOr(st, PyDict(<<>>))]

\* The exception the try block raises for backend outcome oc ("" if none).
TryRaises(oc) ==
    IF oc.kind = "raises" THEN oc.exc                   \* requests.post raised
    ELSE IF RaiseForStatus(oc.status) THEN "HTTPError"  \* resp.raise_for_status()
    ELSE IF ~oc.isjson THEN "JSONDecodeError"           \* resp.json()
    ELSE IF oc.data.tag # "dict" THEN "AttributeError"  \* data.keys()
    ELSE ""

\* The Timeout clause is missing: a timeout falls through to the last clause.
Handler_NoTimeoutClause(e) ==
    IF IsInstance(e, "ConnectionError") THEN "ConnectionError"
    ELSE IF IsInstance(e, "HTTPError") THEN "HTTPError"
    ELSE "Exception"

\* The except clause that catches e: the first whose class e is an instance of.
Handler(e) ==
    IF IsInstance(e, "ConnectionError") THEN "ConnectionError"
    ELSE IF IsInstance(e, "Timeout") THEN "Timeout"
    ELSE IF IsInstance(e, "HTTPError") THEN "HTTPError"
    ELSE "Exception"

\* The HTTP error message leaves the status code out.
ErrMsg_NoCode(h, code) ==
    CASE h = "ConnectionError" -> ConnMsg
      [] h = "Timeout" -> TimeoutMsg
      [] h = "HTTPError" -> "Backend returned HTTP Error."
      [] OTHER -> UnknownMsg

\* err_msg of the except clause h (code: e.response.status_code).
ErrMsg(h, code) ==
    CASE h = "ConnectionError" -> ConnMsg
      [] h = "Timeout" -> TimeoutMsg
      [] h = "HTTPError" -> HttpMsg(code)
      [] OTHER -> UnknownMsg

\* The success return clears the prompt.
SuccessReturn_ClearPrompt(user_msg, chat_history, st, data) ==
    Return(PyStr(""),
           DictGet(data, "chat_history", chat_history),
           DictGet(data, "state", st),
           DictGet(data, "status", PyStr("")))

\* return (user_msg, data.get("chat_history", chat_history), ...)
SuccessReturn(user_msg, chat_history, st, data) ==
    Return(user_msg,
           DictGet(data, "chat_history", chat_history),
           DictGet(data, "state", st),
           DictGet(data, "status", PyStr("")))

\* The except clause replaces the transcript by the error turn alone.
FailureReturn_DropHistory(user_msg, chat_history, st, err_msg) ==
    IF ListRaises(chat_history) THEN Raise("TypeError")
    ELSE Return(user_msg,
                PyList(<<Turn(user_msg, PyStr(err_msg))>>),
                PyOr(st, PyDict(<<>>)),
                PyStr(err_msg))

\* The body shared by the four except clauses:
\*   new_hist = list(chat_history); new_hist.append((user_msg, err_msg))
\*   return user_msg, new_hist, state or {}, err_msg
FailureReturn(user_msg, chat_history, st, err_msg) ==
    IF ListRaises(chat_history) THEN Raise("TypeError")
    ELSE Return(user_msg,
                ListAppend(chat_history, Turn(user_msg, PyStr(err_msg))),
                PyOr(st, PyDict(<<>>)),
                PyStr(err_msg))

\* call_api(user_msg, chat_history, mode, use_history, state), given the
\* outcome oc of POST /chat.
call_api(user_msg, chat_history, mode, use_history, st, oc) ==
    LET e == TryRaises(oc) IN
    IF e = "" THEN SuccessReturn(user_msg, chat_history, st, oc.data)
    ELSE FailureReturn(user_msg, chat_history, st, ErrMsg(Handler(e), oc.status))

-----------------------------------------------------------------------------
(* Bounds and the sets inputs are drawn from.                              *)

MaxTurns == 2      \* longest transcript given to call_api as a function
MaxChat == 1       \* longest session transcript a failed submit still appends to
MaxPending == 1    \* most change events waiting to be handled
MaxModes == 2      \* the user selects among the first MaxModes modes
MaxChoice == 1     \* the user selects among the first MaxChoice sample questions

Absent == [tag |-> "absent", v |-> <<>>]

\* A dict from (key, value) pairs, leaving out the keys whose value is Absent.
MkDict(pairs) == PyDict(SelectSeq(pairs, LAMBDA p : p[2] # Absent))

Texts == {PyStr(""), PyStr("hi")}

T1 == Turn(PyStr("hi"), PyStr("hello"))

RECURSIVE SeqsUpTo(_, _)
SeqsUpTo(S, n) ==
    IF n = 0 THEN {<<>>}
    ELSE LET shorter == SeqsUpTo(S, n - 1)
         IN shorter \cup {Append(q, x) : q \in shorter, x \in S}

Transcripts == {PyList(q) : q \in SeqsUpTo({T1}, MaxTurns)}

\* state = gr.State({"session_id": "", "memory": []})
InitialState ==
    PyDict(<< <<"memory", PyList(<<>>)>>, <<"session_id", PyStr("")>> >>)

State1 ==
    PyDict(<< <<"memory", PyList(<<T1>>)>>, <<"session_id", PyStr("abc123")>> >>)

\* JSON values a response may carry under "state".
JsonStates == {None, PyBool(FALSE), PyList(<<>>), PyDict(<<>>), State1}

\* Status codes of a POST /chat response (redirects are not followed).
StatusCodes == {200, 302, 404, 500}

\* Status codes of a GET response: requests.get follows redirects, so a final
\* 3xx response is one that names no location to follow.
GetStatusCodes == {200, 300, 404, 500}

PostExceptions ==
    {"ConnectionError", "SSLError", "ConnectTimeout", "ReadTimeout", "Timeout",
     "ChunkedEncodingError"}

ChatBodies ==
    {MkDict(<< <<"chat_history", h>>, <<"state", s>>, <<"status", t>> >>) :
        h \in {Absent, None, PyList(<<T1>>)},
        s \in {Absent} \cup JsonStates,
        t \in {Absent, PyStr("mode=SFT_RAG memory=1/10")}}

ChatOutcomes ==
    {Raises(e) : e \in PostExceptions}
    \cup {NonJsonResponse(c) : c \in StatusCodes}
    \cup {Response(c, d) : c \in StatusCodes, d \in ChatBodies \cup {PyList(<<>>), None}}

HealthBodies ==
    {MkDict(<< <<"status", PyStr("ok")>> >>),
     MkDict(<< <<"status", PyStr("pending")>> >>),
     MkDict(<< <<"status", PyBool(TRUE)>> >>),
     MkDict(<< <<"detail", PyStr("ok")>> >>),
     PyDict(<<>>), PyList(<<PyStr("ok")>>), PyStr("ok"), None}

GetExceptions ==
    {"ConnectionError", "ConnectTimeout", "ReadTimeout", "TooManyRedirects"}

HealthOutcomes ==
    {Raises(e) : e \in GetExceptions}
    \cup {NonJsonResponse(c) : c \in GetStatusCodes}
    \cup {Response(c, d) : c \in GetStatusCodes, d \in HealthBodies}

SampleBodies ==
    {PyList(<<>>),
     PyList(<<PyStr("What is the cycle length?")>>),
     PyList(<<PyStr("What is the cycle length?"), PyStr("Who is the director?")>>),
     MkDict(<< <<"questions", PyList(<<PyStr("What is the cycle length?")>>)>> >>),
     PyStr("What is the cycle length?"), None}

SampleOutcomes ==
    {Raises(e) : e \in GetExceptions}
    \cup {NonJsonResponse(c) : c \in GetStatusCodes}
    \cup {Response(c, d) : c \in GetStatusCodes, d \in SampleBodies}

NoCall == [fn |-> "none"]
NoWire == [fn |-> "none", sent |-> None, got |-> <<>>, last |-> <<>>]

\* The state a response supplies: <<s>> when the call succeeds and the body
\* has a "state" key, <<>> otherwise.
Supplied(oc) ==
    IF TryRaises(oc) = "" /\ HasKey(oc.data, "state")
    THEN <<DictGet(oc.data, "state", None)>>
    ELSE <<>>

-----------------------------------------------------------------------------
(* SpecFn: one helper applied once to inputs drawn from bounded sets.      *)

FnCallApi ==
    /\ call = NoCall
    /\ \E user_msg \in Texts, chat_history \in Transcripts \cup {None},
       mode \in {MODES[i] : i \in 1..Len(MODES)}, use_history \in BOOLEAN,
       st \in JsonStates \cup {InitialState}, oc \in ChatOutcomes :
        call' = [fn |-> "call_api",
                 args |-> <<user_msg, chat_history, mode, use_history, st>>,
                 oc |-> oc,
                 payload |-> Payload(user_msg, chat_history, mode, use_history, st),
                 res |-> call_api(user_msg, chat_history, mode, use_history, st, oc)]

FnCheckBackend ==
    /\ call = NoCall
    /\ \E oc \in HealthOutcomes :
        call' = [fn |-> "check_backend", oc |-> oc, res |-> check_backend(oc)]

FnFetchSampleQuestions ==
    /\ call = NoCall
    /\ \E oc \in SampleOutcomes :
        call' = [fn |-> "fetch_sample_questions", oc |-> oc,
                 res |-> fetch_sample_questions(oc)]

Unbuilt ==
    /\ pc = "start"
    /\ sample_questions = PyList(<<>>)
    /\ msg = PyStr("")
    /\ chat = PyList(<<>>)
    /\ state = None
    /\ status_lbl = PyStr("")
    /\ sample_dd = None
    /\ mode_dd = "SFT_RAG"
    /\ use_hist = FALSE
    /\ pending = <<>>
    /\ picked = None
    /\ wire = NoWire
    /\ call = NoCall

session == <<pc, sample_questions, msg, chat, state, status_lbl, sample_dd,
             mode_dd, use_hist, pending, picked, wire>>

InitFn == Unbuilt

NextFn ==
    \/ FnCallApi /\ UNCHANGED session
    \/ FnCheckBackend /\ UNCHANGED session
    \/ FnFetchSampleQuestions /\ UNCHANGED session

SpecFn == InitFn /\ [][NextFn]_vars

-----------------------------------------------------------------------------
(* Spec: one browser session of the UI built by build_ui.                  *)

\* The backend outcomes of the session's chat calls.
UiChatOutcomes ==
    {Raises("ConnectionError"), Response(200, PyDict(<<>>))}
    \cup {Response(200, MkDict(<< <<"chat_history", h>>, <<"state", s>>,
                                  <<"status", PyStr("mode=SFT_RAG memory=1/10")>> >>)) :
            h \in {Absent, None, PyList(<<T1>>)},
            s \in {Absent, None, State1}}

\* The backend outcomes of the session's sample question fetch.
UiSampleOutcomes ==
    {Raises("ConnectionError"),
     Response(200, PyList(<<PyStr("What is the cycle length?")>>))}

\* The backend outcomes of the session's health check.
UiHealthOutcomes ==
    {Raises("ConnectionError"), Response(200, MkDict(<< <<"status", PyStr("ok")>> >>))}

\* The texts the user types.
UiTexts == {PyStr("hi")}

\* The modes the user selects among.
UiModes == {MODES[i] : i \in 1..(IF Len(MODES) < MaxModes THEN Len(MODES) ELSE MaxModes)}

\* The text of status_lbl before the health check answers.
InitialStatus == PyStr("mode=SFT_RAG memory=0/10 checking backend...")

\* The sample questions the user selects among.
Choices ==
    {sample_questions.v[i] : i \in 1..(IF Len(sample_questions.v) < MaxChoice
                                       THEN Len(sample_questions.v) ELSE MaxChoice)}

\* gr.Chatbot shows a missing transcript as the empty one.
ChatbotValue(x) == IF x = None THEN PyList(<<>>) ELSE x

\* build_ui(): fetch the sample questions and create the components.
BuildUI ==
    /\ pc = "start"
    /\ \E oc \in UiSampleOutcomes : sample_questions' = fetch_sample_questions(oc)
    /\ mode_dd' = "SFT_RAG"
    /\ use_hist' = FALSE
    /\ status_lbl' = InitialStatus
    /\ state' = InitialState
    /\ sample_dd' = None
    /\ msg' = PyStr("")
    /\ chat' = PyList(<<>>)
    /\ pc' = "built"
    /\ UNCHANGED <<pending, picked, wire, call>>

\* demo.load: the page is loaded and the backend is pinged once.
Load ==
    /\ pc = "built"
    /\ \E oc \in UiHealthOutcomes : status_lbl' = PyStr(check_backend(oc))
    /\ pc' = "page"
    /\ UNCHANGED <<sample_questions, msg, chat, state, sample_dd, mode_dd,
                   use_hist, pending, picked, wire, call>>

\* The user types into the prompt.
EditPrompt ==
    /\ pc = "page"
    /\ \E t \in UiTexts : msg' = t
    /\ picked' = None
    /\ UNCHANGED <<pc, sample_questions, chat, state, status_lbl, sample_dd,
                   mode_dd, use_hist, pending, wire, call>>

\* The user selects a mode.
SetMode ==
    /\ pc = "page"
    /\ \E m \in UiModes : mode_dd' = m
    /\ UNCHANGED <<pc, sample_questions, msg, chat, state, status_lbl, sample_dd,
                   use_hist, pending, picked, wire, call>>

\* The user toggles "Use conversation history for this request".
ToggleHistory ==
    /\ pc = "page"
    /\ use_hist' = ~use_hist
    /\ UNCHANGED <<pc, sample_questions, msg, chat, state, status_lbl, sample_dd,
                   mode_dd, pending, picked, wire, call>>

\* The user selects sample question q: the selector's value changes, which
\* dispatches its change event.
SelectSample ==
    /\ pc = "page"
    /\ Len(pending) < MaxPending
    /\ \E q \in Choices :
        /\ q # sample_dd
        /\ sample_dd' = q
        /\ pending' = Append(pending, q)
        /\ picked' = q
    /\ UNCHANGED <<pc, sample_questions, msg, chat, state, status_lbl, mode_dd,
                   use_hist, wire, call>>

\* _pick_sample(q)
pick_sample(q) == <<PyOr(q, PyStr("")), None>>

\* sample_dd.change(_pick_sample, inputs=sample_dd, outputs=[msg, sample_dd]):
\* the handler runs on the value the event was dispatched with; its outputs
\* are written to the prompt and to the selector, and a selector value that
\* changes thereby dispatches the change event again.
SampleChange ==
    /\ pending # <<>>
    /\ LET out == pick_sample(Head(pending)) IN
        /\ msg' = out[1]
        /\ sample_dd' = out[2]
        /\ pending' = IF out[2] # sample_dd
                      THEN Append(Tail(pending), out[2])
                      ELSE Tail(pending)
    /\ UNCHANGED <<pc, sample_questions, chat, state, status_lbl, mode_dd,
                   use_hist, picked, wire, call>>

\* send.click and msg.submit, both wired to _submit with inputs
\* [msg, chat, mode_dd, use_hist, state] and outputs [msg, chat, state, status_lbl].
Submit ==
    /\ pc = "page"
    /\ \E oc \in UiChatOutcomes :
        LET r == call_api(msg, chat, mode_dd, use_hist, state, oc) IN
        /\ TryRaises(oc) # "" => Len(chat.v) < MaxChat
        /\ IF r.kind = "return"
           THEN /\ msg' = r.val[1]
                /\ chat' = ChatbotValue(r.val[2])
                /\ state' = r.val[3]
                /\ status_lbl' = r.val[4]
           ELSE UNCHANGED <<msg, chat, state, status_lbl>>
        /\ wire' = [fn |-> "call_api",
                    sent |-> Payload(msg, chat, mode_dd, use_hist, state).state,
                    got |-> Supplied(oc),
                    last |-> wire.got]
    /\ UNCHANGED <<pc, sample_questions, sample_dd, mode_dd, use_hist, pending,
                   picked, call>>

Init == Unbuilt

Next ==
    \/ BuildUI
    \/ Load
    \/ EditPrompt
    \/ SetMode
    \/ ToggleHistory
    \/ SelectSample
    \/ SampleChange
    \/ Submit

Spec == Init /\ [][Next]_vars

-----------------------------------------------------------------------------
(* Properties of the helpers (checked under SpecFn).                       *)

IsCallApi == call.fn = "call_api"
ArgMsg == call.args[1]
ArgHist == call.args[2]
ArgMode == call.args[3]
ArgUseHistory == call.args[4]
ArgState == call.args[5]
Returned == call.res.kind = "return"
RetMsg == call.res.val[1]
RetHist == call.res.val[2]
RetState == call.res.val[3]
RetStatus == call.res.val[4]

IsTranscript(x) == x.tag = "list"
Is2xx(code) == code >= 200 /\ code < 300
EmptyDict == PyDict(<<>>)

\* The value a dict holds under key k (d has the key).
ValueAt(d, k) == d.v[CHOOSE i \in 1..Len(d.v) : d.v[i][1] = k][2]

\* The transcript h is the transcript t followed by the one turn (m, e).
OneTurnAppended(h, t, m, e) ==
    /\ h.tag = "list"
    /\ Len(h.v) = Len(t.v) + 1
    /\ \A i \in 1..Len(t.v) : h.v[i] = t.v[i]
    /\ h.v[Len(h.v)] = Turn(m, e)

\* C1: call_api never raises: whatever the inputs (a missing transcript or
\* state included) and the backend outcome, it returns a 4-tuple whose first
\* component is the user message.
C1_NeverRaises ==
    IsCallApi => /\ Returned
                 /\ Len(call.res.val) = 4
                 /\ RetMsg = ArgMsg

\* C3 as claimed: for any transcript T and any call that fails with a timeout
\* (the exception raised is an instance of Timeout, of whatever subtype), the
\* returned transcript is T with the one turn (user message, timeout message)
\* appended and the status is the timeout message.
C3_TimeoutTurn ==
    (/\ IsCallApi
     /\ IsTranscript(ArgHist)
     /\ call.oc.kind = "raises"
     /\ IsInstance(call.oc.exc, "Timeout"))
    => /\ Returned
       /\ OneTurnAppended(RetHist, ArgHist, ArgMsg, PyStr(TimeoutMsg))
       /\ RetStatus = PyStr(TimeoutMsg)

\* C3 as amended: for any transcript T and any call that fails with a timeout
\* that is not also a connection error (Timeout, ReadTimeout), the returned
\* transcript is T with the one turn (user message, timeout message) appended
\* and the status is the timeout message; a timeout that is also a connection
\* error (ConnectTimeout) gets the connection message in both places instead.
C3_PureTimeoutTurn ==
    (/\ IsCallApi
     /\ IsTranscript(ArgHist)
     /\ call.oc.kind = "raises"
     /\ IsInstance(call.oc.exc, "Timeout"))
    => LET e == IF IsInstance(call.oc.exc, "ConnectionError")
                THEN PyStr("Backend not reachable (connection refused). Please retry when the backend server is running...")
                ELSE PyStr("Backend took too long. Please try again later.")
       IN /\ Returned
          /\ OneTurnAppended(RetHist, ArgHist, ArgMsg, e)
          /\ RetStatus = e

C3_Witness ==
    /\ IsCallApi
    /\ call.oc = Raises("ReadTimeout")
    /\ Len(ArgHist.v) = 2
    /\ Returned
    /\ Len(RetHist.v) = 3
    /\ RetHist.v[3] = Turn(ArgMsg, PyStr("Backend took too long. Please try again later."))
    /\ RetStatus = PyStr("Backend took too long. Please try again later.")

\* The result reports the status code: the status text and the assistant text
\* of the turn appended to transcript t both include the code's digits.
ReportsCode(t, code) ==
    /\ Returned
    /\ RetStatus.tag = "str"
    /\ Contains(RetStatus.v[1], ToString(code))
    /\ RetHist.tag = "list"
    /\ Len(RetHist.v) = Len(t.v) + 1
    /\ RetHist.v[Len(RetHist.v)].v[1] = ArgMsg
    /\ RetHist.v[Len(RetHist.v)].v[2].tag = "str"
    /\ Contains(RetHist.v[Len(RetHist.v)].v[2].v[1], ToString(code))

\* C4 as claimed: every response whose status is not 2xx (3xx included) yields
\* a status string and an appended turn that include the status code.
C4_Non2xxReportsCode ==
    (/\ IsCallApi
     /\ IsTranscript(ArgHist)
     /\ call.oc.kind = "response"
     /\ ~Is2xx(call.oc.status))
    => ReportsCode(ArgHist, call.oc.status)

\* C4 as amended: every response whose status is 4xx or 5xx yields a status
\* string and an appended turn that include the status code; a 3xx response
\* is handled like a 2xx one instead (the status of its JSON object is the
\* status returned, and any other body is the unknown client error).
C4_ErrorStatusReportsCode ==
    (/\ IsCallApi
     /\ IsTranscript(ArgHist)
     /\ call.oc.kind = "response")
    => /\ (call.oc.status >= 400 /\ call.oc.status < 600)
            => ReportsCode(ArgHist, call.oc.status)
       /\ (call.oc.status >= 300 /\ call.oc.status < 400)
            => /\ Returned
               /\ IF call.oc.isjson /\ call.oc.data.tag = "dict"
                  THEN RetStatus = IF HasKey(call.oc.data, "status")
                                   THEN ValueAt(call.oc.data, "status")
                                   ELSE PyStr("")
                  ELSE /\ RetStatus = PyStr("Unknown client error.")
                       /\ OneTurnAppended(RetHist, ArgHist, ArgMsg,
                                          PyStr("Unknown client error."))

C4_Witness ==
    /\ IsCallApi
    /\ IsTranscript(ArgHist)
    /\ Len(ArgHist.v) = 1
    /\ call.oc.kind = "response"
    /\ call.oc.status = 404
    /\ RetStatus = PyStr("Backend returned HTTP Error : 404.")

\* The failure kinds of a backend outcome, by the taxonomy: a connection
\* error, a timeout, an HTTP error status, anything else.
FailureMessages(oc) ==
    IF oc.kind = "raises"
    THEN (IF IsInstance(oc.exc, "ConnectionError") THEN {ConnMsg} ELSE {})
         \cup (IF IsInstance(oc.exc, "Timeout") THEN {TimeoutMsg} ELSE {})
         \cup (IF ~IsInstance(oc.exc, "ConnectionError") /\ ~IsInstance(oc.exc, "Timeout")
               THEN {UnknownMsg} ELSE {})
    ELSE IF oc.status >= 400 /\ oc.status < 600
         THEN {"Backend returned HTTP Error : " \o ToString(oc.status) \o "."}
         ELSE {UnknownMsg}

\* The call failed: the request raised, the status is an error status, or the
\* body is not a JSON object.
Failed(oc) ==
    \/ oc.kind = "raises"
    \/ oc.status >= 400 /\ oc.status < 600
    \/ ~oc.isjson
    \/ oc.data.tag # "dict"

\* C5 as claimed: on a failure the result is (msg, T + [(msg, E)], S, E), E the
\* message of the failure kind: the returned state is the input state S.
C5_FailureKeepsState ==
    (IsCallApi /\ IsTranscript(ArgHist) /\ Failed(call.oc))
    => /\ Returned
       /\ RetMsg = ArgMsg
       /\ \E e \in FailureMessages(call.oc) :
            /\ OneTurnAppended(RetHist, ArgHist, ArgMsg, PyStr(e))
            /\ RetStatus = PyStr(e)
       /\ RetState = ArgState

\* C5 as amended: on a failure the result is (msg, T + [(msg, E)], S', E),
\* where S' is S when S is truthy and the empty dict {} when S is missing or
\* empty (None, false, [], {}).
C5_FailureDefaultsState ==
    (IsCallApi /\ IsTranscript(ArgHist) /\ Failed(call.oc))
    => /\ Returned
       /\ RetMsg = ArgMsg
       /\ \E e \in FailureMessages(call.oc) :
            /\ OneTurnAppended(RetHist, ArgHist, ArgMsg, PyStr(e))
            /\ RetStatus = PyStr(e)
       /\ Truthy(ArgState) => RetState = ArgState
       /\ ~Truthy(ArgState) => RetState = EmptyDict

C5_Witness ==
    /\ IsCallApi
    /\ Len(ArgHist.v) = 2
    /\ call.oc = Raises("ConnectionError")
    /\ ArgState = None
    /\ RetState = EmptyDict
    /\ RetStatus = PyStr(ConnMsg)
    /\ RetHist.v[3] = Turn(ArgMsg, PyStr(ConnMsg))

C7_PayloadVerbatim ==
    IsCallApi =>
        /\ DOMAIN call.payload = {"user_msg", "chat_history", "mode", "use_history", "state"}
        /\ call.payload.user_msg = ArgMsg
        /\ call.payload.chat_history = ArgHist
        /\ call.payload.mode = ArgMode
        /\ call.payload.use_history = ArgUseHistory
        /\ call.payload.state = ArgState

\* C7 as amended: the payload has exactly the five fields; user_msg, mode and
\* use_history equal the inputs as received (an empty message stays empty);
\* chat_history is the transcript, or [] when the transcript is missing or
\* empty; state is the state, or {} when the state is missing or empty.
C7_PayloadDefaulted ==
    IsCallApi =>
        /\ DOMAIN call.payload = {"user_msg", "chat_history", "mode", "use_history", "state"}
        /\ call.payload.user_msg = ArgMsg
        /\ call.payload.mode = ArgMode
        /\ call.payload.use_history = ArgUseHistory
        /\ Truthy(ArgHist) => call.payload.chat_history = ArgHist
        /\ ~Truthy(ArgHist) => call.payload.chat_history = PyList(<<>>)
        /\ Truthy(ArgState) => call.payload.state = ArgState
        /\ ~Truthy(ArgState) => call.payload.state = EmptyDict

C7_Witness ==
    /\ IsCallApi
    /\ ArgMsg = PyStr("")
    /\ ArgHist = None
    /\ ArgState = None
    /\ ~ArgUseHistory
    /\ call.payload.user_msg = PyStr("")
    /\ call.payload.chat_history = PyList(<<>>)
    /\ call.payload.state = EmptyDict

\* The body of the outcome is a JSON object whose status field is "ok".
BodySaysOk(oc) ==
    /\ oc.isjson
    /\ oc.data.tag = "dict"
    /\ \E i \in 1..Len(oc.data.v) : oc.data.v[i] = <<"status", PyStr("ok")>>

\* C8 as claimed: check_backend returns the ready signal if and only if the
\* GET completes, its status is a success status (2xx) and the body's status
\* field is exactly "ok"; otherwise it returns the not-ready signal.
C8_ReadyIff2xxOk ==
    call.fn = "check_backend" =>
        /\ call.res \in {"backend=READY", "backend=DOWN"}
        /\ call.res = "backend=READY"
             <=> (call.oc.kind = "response" /\ Is2xx(call.oc.status) /\ BodySaysOk(call.oc))

\* C8 as amended: check_backend returns the ready signal if and only if the
\* GET completes, its status is below 400 (not an error status: a 3xx
\* response that was not followed counts) and the body's status field is
\* exactly "ok"; otherwise it returns the not-ready signal.
C8_ReadyIffNoErrorStatusOk ==
    call.fn = "check_backend" =>
        /\ call.res \in {"backend=READY", "backend=DOWN"}
        /\ call.res = "backend=READY"
             <=> (call.oc.kind = "response" /\ call.oc.status < 400 /\ BodySaysOk(call.oc))

C8_Witness ==
    /\ call.fn = "check_backend"
    /\ call.oc.kind = "response"
    /\ call.oc.status = 200
    /\ BodySaysOk(call.oc)
    /\ call.res = "backend=READY"

\* The value is a list of six items.
SixItemList(x) == x.tag = "list" /\ Len(x.v) = 6

\* C9 as claimed: fetch_sample_questions returns a non-empty list on every
\* path: the backend's list on a 2xx response with a JSON list body, the
\* six-item fallback list otherwise.
C9_NonEmptyList ==
    call.fn = "fetch_sample_questions" =>
        /\ call.res.tag = "list"
        /\ Len(call.res.v) > 0
        /\ IF call.oc.kind = "response" /\ Is2xx(call.oc.status)
              /\ call.oc.isjson /\ call.oc.data.tag = "list"
           THEN call.res = call.oc.data
           ELSE SixItemList(call.res) /\ call.res = fetch_sample_questions(Raises("ConnectionError"))

\* C9 as amended: fetch_sample_questions returns a list on every path: the
\* backend's list, which may be empty, when the GET completes with a status
\* below 400 and a JSON list body; the same six-item fallback list otherwise.
C9_ListOrFallback ==
    call.fn = "fetch_sample_questions" =>
        /\ call.res.tag = "list"
        /\ IF call.oc.kind = "response" /\ call.oc.status < 400
              /\ call.oc.isjson /\ call.oc.data.tag = "list"
           THEN call.res = call.oc.data
           ELSE SixItemList(call.res) /\ call.res = fetch_sample_questions(Raises("ConnectionError"))

C9_Witness ==
    /\ call.fn = "fetch_sample_questions"
    /\ call.oc.kind = "response"
    /\ call.oc.status = 200
    /\ call.oc.isjson
    /\ call.oc.data.tag = "list"
    /\ Len(call.oc.data.v) = 2
    /\ call.res = call.oc.data

-----------------------------------------------------------------------------
(* Properties of the session (checked under Spec).                         *)

\* C2 as claimed: the state POSTed by a submit equals the state value the
\* response to the submit before it supplied, whatever JSON value that was;
\* and the held state changes only when a response supplies a new one.
C2_StateRoundTrip ==
    /\ [](wire.last # <<>> => wire.sent = wire.last[1])
    /\ [][(pc = "page" /\ state' # state)
            => (wire'.got # <<>> /\ state' = wire'.got[1])]_vars

\* C2 as amended: the state POSTed by a submit equals the state value the
\* response to the submit before it supplied when that value is truthy, and
\* is the empty dict {} when that value is null or empty; the held state
\* changes only when a response supplies a new one, or when a failed submit
\* replaces a null or empty held state by {}.
C2_StateRoundTripDefaulted ==
    /\ [](wire.last # <<>>
            => wire.sent = IF Truthy(wire.last[1]) THEN wire.last[1] ELSE EmptyDict)
    /\ [][(pc = "page" /\ state' # state)
            => \/ (wire'.got # <<>> /\ state' = wire'.got[1])
               \/ (wire'.got = <<>> /\ ~Truthy(state) /\ state' = EmptyDict)]_vars

C2_Witness ==
    /\ wire.fn = "call_api"
    /\ wire.last = <<State1>>
    /\ wire.sent = State1
    /\ wire.got = <<None>>
    /\ state = None

\* C10: once the handlers fired by the selector's change event have run, the
\* prompt holds the question the user selected and the selector is unselected.
C10_PickFillsPrompt ==
    (pc = "page" /\ picked # None /\ pending = <<>>)
    => (msg = picked /\ sample_dd = None)

=============================================================================
